---- MODULE Spec2Model ----
(***************************************************************************)
(* Model of PresageTesting/hello_vitals.cpp: main() resolves an API key,   *)
(* reads its configuration from the environment, constructs the            *)
(* SmartSpectra container, registers three callbacks, then calls           *)
(* Initialize and Run.  C strings are sequences of one-character strings;  *)
(* a null pointer (getenv of an unset variable, a missing argv[1]) is      *)
(* Null.  The SmartSpectra container is an external library: each call     *)
(* into it returns one of the outcomes its signature allows, chosen        *)
(* nondeterministically.                                                   *)
(***************************************************************************)
EXTENDS Integers, Sequences, FiniteSets, TLC

VARIABLES
    pc,               \* position of main()
    argv1,            \* argv[1], Null when argc <= 1
    env_api_key,      \* value of SMARTSPECTRA_API_KEY in the environment
    api_key,          \* std::string api_key
    api_key_source,   \* std::string api_key_source
    env_dev,          \* const char* env_dev, in scope in lines 49-56
    device_index,     \* int device_index
    input_video_path, \* std::string input_video_path
    w,                \* const char* w, in scope in line 63
    capture_width,    \* int capture_width
    h,                \* const char* h, in scope in line 66
    capture_height,   \* int capture_height
    headless,         \* bool headless
    settings,         \* the Settings record handed to the container
    container,        \* the settings the container was constructed from, or NoObject
    hud,              \* the OpenCvHud geometry, or NoObject
    file_good,        \* file_check.good(): "unchecked", "good" or "bad"
    calls,            \* the container calls made so far, in order, each with its result
    cb,               \* frame of the callback invocation in progress, or NoCallback
    callback_status,  \* "ok", or the status that is not OK a callback returned to Run
    windows,          \* the HighGUI windows that exist
    run_end,          \* why Run ended: "none", "complete", "cancelled", "error", "throw"
    out,              \* the kinds of message written to stdout / stderr
    e_what,           \* the exception in flight or caught, "none" if none
    exit_code         \* the value main returned, -1 while it runs

vars ==
    << pc, argv1, env_api_key, api_key, api_key_source, env_dev, device_index,
       input_video_path, w, capture_width, h, capture_height, headless, settings,
       container, hud, file_good, calls, cb, callback_status, windows, run_end,
       out, e_what, exit_code >>

----------------------------------------------------------------------------
(* Bounds and input sets *)

\* Longest value of SMARTSPECTRA_CAMERA_INDEX that is enumerated.
MaxLen == 2

\* Longest pulse-rate / breathing-rate series of a metrics snapshot.
MaxSeries == 2

\* "No pointer": a value no C string of the model equals.
Null == << "nullptr" >>

\* An object that has not been constructed.
NoObject == [constructed |-> FALSE]

\* The characters numeric environment values are made of.
NumChars == {"1", "-", "x", " "}

\* All strings over alphabet of length at most n.
Strings(alphabet, n) == UNION { [1..k -> alphabet] : k \in 0..n }

\* What argv[1] may be, and what SMARTSPECTRA_API_KEY may be.
ArgvKeys == {Null, << >>, << "a" >>}
EnvKeys == {Null, << >>, << "b" >>}

\* What SMARTSPECTRA_CAMERA_INDEX may be.
DevValues == {Null} \cup Strings(NumChars, MaxLen)

\* What SMARTSPECTRA_WIDTH and SMARTSPECTRA_HEIGHT may be.
DimValues == {Null, << >>, << "1" >>, << "x" >>, << "1", "x" >>}

\* What SMARTSPECTRA_INPUT_VIDEO may be.
PathValues == {Null, << >>, << "f" >>}

\* What SMARTSPECTRA_HEADLESS may be.
HeadlessValues == {Null, << "1" >>, << "t", "r", "u", "e" >>, << "0" >>}

\* Rate values of a metrics snapshot.
Rates == {60, 72}

\* All metrics snapshots: a pulse-rate and a breathing-rate series.
MetricsBuffers ==
    [ pulse_rate : Strings(Rates, MaxSeries), breathing_rate : Strings(Rates, MaxSeries) ]

\* What cv::waitKey(1) may return: no key (-1), 'q', escape, 's', and 'q' with a
\* modifier flag above the low byte.
WaitKeyResults == {-1, 113, 27, 115, 1048689}

\* The imaging status values delivered to the status callback.
StatusValues == {"OK", "NO_FACES"}

----------------------------------------------------------------------------
(* Library functions the program calls *)

IsSpace(c) == c \in {" ", "\t", "\n"}

IsDigit(c) == c \in {"0", "1", "2", "3", "4", "5", "6", "7", "8", "9"}

DigitValue(c) ==
    CASE c = "0" -> 0 [] c = "1" -> 1 [] c = "2" -> 2 [] c = "3" -> 3 [] c = "4" -> 4
      [] c = "5" -> 5 [] c = "6" -> 6 [] c = "7" -> 7 [] c = "8" -> 8 [] c = "9" -> 9

\* The first index at or after i whose character is not white space, Len(s)+1 if none.
RECURSIVE SkipSpaces(_, _)
SkipSpaces(s, i) ==
    IF i <= Len(s) /\ IsSpace(s[i]) THEN SkipSpaces(s, i + 1) ELSE i

\* The first index at or after i whose character is not a digit, Len(s)+1 if none.
RECURSIVE SkipDigits(_, _)
SkipDigits(s, i) ==
    IF i <= Len(s) /\ IsDigit(s[i]) THEN SkipDigits(s, i + 1) ELSE i

\* The decimal value of the digits s[from] .. s[to-1].
RECURSIVE DigitsValue(_, _, _)
DigitsValue(s, from, to) ==
    IF to <= from THEN 0
    ELSE 10 * DigitsValue(s, from, to - 1) + DigitValue(s[to - 1])

\* std::stoi(s): skips leading white space, takes an optional sign and the longest
\* run of digits that follows, and ignores whatever comes after it.  It throws
\* std::invalid_argument when there is no digit to convert and std::out_of_range
\* when the value does not fit an int.
stoi(s) ==
    LET p == SkipSpaces(s, 1)
        signed == p <= Len(s) /\ s[p] \in {"-", "+"}
        d == IF signed THEN p + 1 ELSE p
        e == SkipDigits(s, d)
        mag == DigitsValue(s, d, e)
        v == IF signed /\ s[p] = "-" THEN 0 - mag ELSE mag
    IN  IF e = d THEN [thrown |-> "invalid_argument", value |-> 0]
        ELSE IF v > 2147483647 \/ v < (0 - 2147483647) - 1 THEN [thrown |-> "out_of_range", value |-> 0]
        ELSE [thrown |-> "none", value |-> v]

\* std::min on ints.
Min(a, b) == IF a < b THEN a ELSE b

\* C++ integer division, which truncates toward zero.
CDiv(a, b) == IF a >= 0 THEN a \div b ELSE 0 - ((0 - a) \div b)

\* presage::physiology::GetStatusDescription.
GetStatusDescription(v) == << "description", v >>

\* (char)(k & 0xFF) where char is signed: the low byte, as a value in -128..127.
LowByteAsChar(k) == LET b == k % 256 IN IF b >= 128 THEN b - 256 ELSE b

----------------------------------------------------------------------------
(* Program constants *)

DefaultDeviceIndex == 0
DefaultWidth == 640
DefaultHeight == 480
KeyQ == 113
KeyEscape == 27
WindowName == "SmartSpectra Hello Vitals"

\* The container calls of a complete session, in order.
Lifecycle ==
    << "ctor", "SetOnCoreMetricsOutput", "SetOnVideoOutput", "SetOnStatusChange",
       "Initialize", "Run" >>

NoCallback == [name |-> "none"]

----------------------------------------------------------------------------
(* Initial state: main() is entered *)

Init ==
    /\ pc = "resolve_key"
    /\ argv1 \in ArgvKeys
    /\ env_api_key \in EnvKeys
    /\ api_key = << >>
    /\ api_key_source = ""
    /\ env_dev = Null
    /\ device_index = DefaultDeviceIndex
    /\ input_video_path = << >>
    /\ w = Null
    /\ capture_width = DefaultWidth
    /\ h = Null
    /\ capture_height = DefaultHeight
    /\ headless = FALSE
    /\ settings = NoObject
    /\ container = NoObject
    /\ hud = NoObject
    /\ file_good = "unchecked"
    /\ calls = << >>
    /\ cb = NoCallback
    /\ callback_status = "ok"
    /\ windows = {}
    /\ run_end = "none"
    /\ out = {}
    /\ e_what = "none"
    /\ exit_code = -1

\* return n from main: the message printed on the way, the exit code, the end.
Return(msgs, n) ==
    /\ out' = out \cup msgs
    /\ exit_code' = n
    /\ pc' = "done"

----------------------------------------------------------------------------
(* main(), lines 23-44: the API key *)

\* Lines 25-36: argv[1] when there is one, else SMARTSPECTRA_API_KEY when it is
\* set, else the usage text and return 1.
ResolveKey ==
    /\ pc = "resolve_key"
    /\ IF argv1 # Null
       THEN /\ api_key' = argv1
            /\ api_key_source' = "argv[1]"
            /\ pc' = "check_key"
            /\ UNCHANGED << out, exit_code >>
       ELSE IF env_api_key # Null
       THEN /\ api_key' = env_api_key
            /\ api_key_source' = "SMARTSPECTRA_API_KEY"
            /\ pc' = "check_key"
            /\ UNCHANGED << out, exit_code >>
       ELSE /\ Return({"usage"}, 1)
            /\ UNCHANGED << api_key, api_key_source >>
    /\ UNCHANGED << argv1, env_api_key, env_dev, device_index, input_video_path, w,
                    capture_width, h, capture_height, headless, settings, container,
                    hud, file_good, calls, cb, callback_status, windows, run_end,
                    e_what >>

\* CheckKeyEmpty without its test: an empty key is used like any other.
CheckKeyEmpty_NoTest ==
    /\ pc = "check_key"
    /\ out' = out \cup {"using_api_key", "starting"}
    /\ pc' = "getenv_dev"
    /\ UNCHANGED << argv1, env_api_key, api_key, api_key_source, env_dev,
                    device_index, input_video_path, w, capture_width, h,
                    capture_height, headless, settings, container, hud, file_good,
                    calls, cb, callback_status, windows, run_end, e_what,
                    exit_code >>

\* Lines 38-44: an empty key ends the program with 1.
CheckKeyEmpty ==
    /\ pc = "check_key"
    /\ IF api_key = << >>
       THEN Return({"api_key_empty"}, 1)
       ELSE /\ out' = out \cup {"using_api_key", "starting"}
            /\ pc' = "getenv_dev"
            /\ UNCHANGED exit_code
    /\ UNCHANGED << argv1, env_api_key, api_key, api_key_source, env_dev,
                    device_index, input_video_path, w, capture_width, h,
                    capture_height, headless, settings, container, hud, file_good,
                    calls, cb, callback_status, windows, run_end, e_what >>

----------------------------------------------------------------------------
(* main(), lines 46-96: the configuration *)

\* Lines 48-49: int device_index = 0; getenv("SMARTSPECTRA_CAMERA_INDEX").
GetenvCameraIndex ==
    /\ pc = "getenv_dev"
    /\ device_index' = DefaultDeviceIndex
    /\ \E v \in DevValues :
         /\ env_dev' = v
         /\ pc' = IF v = Null THEN "getenv_input" ELSE "stoi_dev"
    /\ UNCHANGED << argv1, env_api_key, api_key, api_key_source, input_video_path,
                    w, capture_width, h, capture_height, headless, settings,
                    container, hud, file_good, calls, cb, callback_status, windows,
                    run_end, out, e_what, exit_code >>

\* Lines 50-55: std::stoi inside try / catch (...): whatever stoi throws is
\* answered with a warning and device index 0.
StoiCameraIndex ==
    /\ pc = "stoi_dev"
    /\ LET r == stoi(env_dev)
       IN  IF r.thrown = "none"
           THEN /\ device_index' = r.value
                /\ UNCHANGED out
           ELSE /\ device_index' = 0
                /\ out' = out \cup {"camera_index_invalid"}
    /\ pc' = "getenv_input"
    /\ UNCHANGED << argv1, env_api_key, api_key, api_key_source, env_dev,
                    input_video_path, w, capture_width, h, capture_height, headless,
                    settings, container, hud, file_good, calls, cb,
                    callback_status, windows, run_end, e_what, exit_code >>

\* Lines 57-60: getenv("SMARTSPECTRA_INPUT_VIDEO"); env_dev is out of scope.
GetenvInputVideo ==
    /\ pc = "getenv_input"
    /\ env_dev' = Null
    /\ \E v \in PathValues : input_video_path' = IF v = Null THEN << >> ELSE v
    /\ pc' = "getenv_w"
    /\ UNCHANGED << argv1, env_api_key, api_key, api_key_source, device_index, w,
                    capture_width, h, capture_height, headless, settings, container,
                    hud, file_good, calls, cb, callback_status, windows, run_end,
                    out, e_what, exit_code >>

\* Lines 62-63: int capture_width = 640; getenv("SMARTSPECTRA_WIDTH").
GetenvWidth ==
    /\ pc = "getenv_w"
    /\ capture_width' = DefaultWidth
    /\ \E v \in DimValues :
         /\ w' = v
         /\ pc' = IF v = Null THEN "getenv_h" ELSE "stoi_w"
    /\ UNCHANGED << argv1, env_api_key, api_key, api_key_source, env_dev,
                    device_index, input_video_path, h, capture_height, headless,
                    settings, container, hud, file_good, calls, cb,
                    callback_status, windows, run_end, out, e_what, exit_code >>

\* Line 63: capture_width = std::stoi(w), with no try around it: what stoi throws
\* leaves the try block of line 46 for the handler of line 188.
StoiWidth ==
    /\ pc = "stoi_w"
    /\ LET r == stoi(w)
       IN  IF r.thrown = "none"
           THEN /\ capture_width' = r.value
                /\ pc' = "getenv_h"
                /\ UNCHANGED e_what
           ELSE /\ e_what' = r.thrown
                /\ pc' = "catch"
                /\ UNCHANGED capture_width
    /\ UNCHANGED << argv1, env_api_key, api_key, api_key_source, env_dev,
                    device_index, input_video_path, w, h, capture_height, headless,
                    settings, container, hud, file_good, calls, cb,
                    callback_status, windows, run_end, out, exit_code >>

\* Lines 65-66: int capture_height = 480; getenv("SMARTSPECTRA_HEIGHT"); w is out
\* of scope.
GetenvHeight ==
    /\ pc = "getenv_h"
    /\ w' = Null
    /\ capture_height' = DefaultHeight
    /\ \E v \in DimValues :
         /\ h' = v
         /\ pc' = IF v = Null THEN "settings" ELSE "stoi_h"
    /\ UNCHANGED << argv1, env_api_key, api_key, api_key_source, env_dev,
                    device_index, input_video_path, capture_width, headless,
                    settings, container, hud, file_good, calls, cb,
                    callback_status, windows, run_end, out, e_what, exit_code >>

\* Line 66: capture_height = std::stoi(h), with no try around it.
StoiHeight ==
    /\ pc = "stoi_h"
    /\ LET r == stoi(h)
       IN  IF r.thrown = "none"
           THEN /\ capture_height' = r.value
                /\ pc' = "settings"
                /\ UNCHANGED e_what
           ELSE /\ e_what' = r.thrown
                /\ pc' = "catch"
                /\ UNCHANGED capture_height
    /\ UNCHANGED << argv1, env_api_key, api_key, api_key_source, env_dev,
                    device_index, input_video_path, w, capture_width, h, headless,
                    settings, container, hud, file_good, calls, cb,
                    callback_status, windows, run_end, out, exit_code >>

\* Lines 84-87: headless is true for "1" and "true" alone.
HeadlessOf(env_headless) ==
    /\ env_headless # Null
    /\ \/ env_headless = << "1" >>
       \/ env_headless = << "t", "r", "u", "e" >>

\* Lines 69-96: the Settings object; h is out of scope.
BuildSettings ==
    /\ pc = "settings"
    /\ h' = Null
    /\ \E v \in HeadlessValues :
         /\ headless' = HeadlessOf(v)
         /\ settings' =
              [ constructed |-> TRUE,
                device_index |-> device_index,
                capture_width_px |-> capture_width,
                capture_height_px |-> capture_height,
                input_video_path |-> input_video_path,
                headless |-> HeadlessOf(v),
                api_key |-> api_key ]
    /\ pc' = "construct"
    /\ UNCHANGED << argv1, env_api_key, api_key, api_key_source, env_dev,
                    device_index, input_video_path, w, capture_width,
                    capture_height, container, hud, file_good, calls, cb,
                    callback_status, windows, run_end, out, e_what, exit_code >>

----------------------------------------------------------------------------
(* main(), lines 98-176: container, HUD, input file, callbacks, Initialize *)

\* A call into the container is recorded with the result it gave.
Call(op, result) == calls' = Append(calls, [op |-> op, result |-> result])

\* Line 99: the container is constructed from the settings.  A constructor has no
\* status to return: it succeeds or throws.
ConstructContainer ==
    /\ pc = "construct"
    /\ \E r \in {"ok", "throw"} :
         /\ Call("ctor", r)
         /\ IF r = "ok"
            THEN /\ container' = [constructed |-> TRUE, settings |-> settings]
                 /\ pc' = "hud"
                 /\ UNCHANGED e_what
            ELSE /\ e_what' = "container"
                 /\ pc' = "catch"
                 /\ UNCHANGED container
    /\ UNCHANGED << argv1, env_api_key, api_key, api_key_source, env_dev,
                    device_index, input_video_path, w, capture_width, h,
                    capture_height, headless, settings, hud, file_good, cb,
                    callback_status, windows, run_end, out, exit_code >>

\* Lines 102-107: the HUD and the "Using device_index=" line.
ConstructHud ==
    /\ pc = "hud"
    /\ hud' = [ constructed |-> TRUE, x |-> 10, y |-> 0,
                width |-> Min(capture_width - 20, 400),
                height |-> Min(CDiv(capture_height, 2), 200) ]
    /\ out' = out \cup {"using_device_index"}
    /\ pc' = "check_file"
    /\ UNCHANGED << argv1, env_api_key, api_key, api_key_source, env_dev,
                    device_index, input_video_path, w, capture_width, h,
                    capture_height, headless, settings, container, file_good, calls,
                    cb, callback_status, windows, run_end, e_what, exit_code >>

\* CheckInputFile without its return: the failure is reported and main goes on.
CheckInputFile_NoReturn ==
    /\ pc = "check_file"
    /\ IF input_video_path = << >>
       THEN UNCHANGED << file_good, out >>
       ELSE \E good \in BOOLEAN :
              IF good
              THEN /\ file_good' = "good"
                   /\ out' = out \cup {"video_file_found"}
              ELSE /\ file_good' = "bad"
                   /\ out' = out \cup {"input_file_not_found"}
    /\ pc' = "set_metrics"
    /\ UNCHANGED << argv1, env_api_key, api_key, api_key_source, env_dev,
                    device_index, input_video_path, w, capture_width, h,
                    capture_height, headless, settings, container, hud, calls, cb,
                    callback_status, windows, run_end, e_what, exit_code >>

\* Lines 109-118: a configured input file is opened; when the stream is not good
\* the program reports it and returns 1.
CheckInputFile ==
    /\ pc = "check_file"
    /\ IF input_video_path = << >>
       THEN /\ pc' = "set_metrics"
            /\ UNCHANGED << file_good, out, exit_code >>
       ELSE \E good \in BOOLEAN :
              IF good
              THEN /\ file_good' = "good"
                   /\ out' = out \cup {"video_file_found"}
                   /\ pc' = "set_metrics"
                   /\ UNCHANGED exit_code
              ELSE /\ file_good' = "bad"
                   /\ Return({"input_file_not_found"}, 1)
    /\ UNCHANGED << argv1, env_api_key, api_key, api_key_source, env_dev,
                    device_index, input_video_path, w, capture_width, h,
                    capture_height, headless, settings, container, hud, calls, cb,
                    callback_status, windows, run_end, e_what >>

\* A call of the container that returns an absl::Status, after the lines in
\* before are printed: on OK main goes on to next, on an error it prints failure
\* and returns 1, and an exception leaves the try block.
StatusCall(op, next, before, failure) ==
    /\ \E r \in {"ok", "error", "throw"} :
         /\ Call(op, r)
         /\ CASE r = "ok" ->
                   /\ pc' = next
                   /\ out' = out \cup before
                   /\ UNCHANGED << exit_code, e_what >>
              [] r = "error" ->
                   /\ Return(before \cup {failure}, 1)
                   /\ UNCHANGED e_what
              [] r = "throw" ->
                   /\ e_what' = "container"
                   /\ pc' = "catch"
                   /\ out' = out \cup before
                   /\ UNCHANGED exit_code
    /\ UNCHANGED << argv1, env_api_key, api_key, api_key_source, env_dev,
                    device_index, input_video_path, w, capture_width, h,
                    capture_height, headless, settings, container, hud, file_good,
                    cb, callback_status, windows, run_end >>

\* Lines 121-141.
SetOnCoreMetricsOutput ==
    /\ pc = "set_metrics"
    /\ StatusCall("SetOnCoreMetricsOutput", "set_video", {}, "failed_metrics_callback")

\* Lines 143-158.
SetOnVideoOutput ==
    /\ pc = "set_video"
    /\ StatusCall("SetOnVideoOutput", "set_status", {}, "failed_video_callback")

\* Lines 160-169.
SetOnStatusChange ==
    /\ pc = "set_status"
    /\ StatusCall("SetOnStatusChange", "initialize", {}, "failed_status_callback")

\* Initialize whose status is not looked at: main goes on to Run after an error.
Initialize_StatusIgnored ==
    /\ pc = "initialize"
    /\ \E r \in {"ok", "error", "throw"} :
         /\ Call("Initialize", r)
         /\ IF r = "throw"
            THEN /\ e_what' = "container"
                 /\ pc' = "catch"
            ELSE /\ pc' = "run"
                 /\ UNCHANGED e_what
    /\ out' = out \cup {"initializing"}
    /\ UNCHANGED << argv1, env_api_key, api_key, api_key_source, env_dev,
                    device_index, input_video_path, w, capture_width, h,
                    capture_height, headless, settings, container, hud, file_good,
                    cb, callback_status, windows, run_end, exit_code >>

\* Lines 172-176.
Initialize ==
    /\ pc = "initialize"
    /\ StatusCall("Initialize", "run", {"initializing"}, "failed_initialize")

----------------------------------------------------------------------------
(* The three callbacks, lines 122-136, 144-153 and 161-164 *)

\* Last element of a non-empty series: *rate().rbegin().
Last(series) == series[Len(series)]

\* The metrics callback with || for && in line 132: it prints when either series
\* is non-empty.
MetricsCallback_PrintsOnEither(metrics) ==
    LET has_pulse == metrics.pulse_rate # << >>
        has_breathing == metrics.breathing_rate # << >>
        pulse == IF has_pulse THEN Last(metrics.pulse_rate) ELSE 0
        breathing == IF has_breathing THEN Last(metrics.breathing_rate) ELSE 0
    IN  [ name |-> "metrics",
          metrics |-> metrics,
          pulse |-> pulse,
          breathing |-> breathing,
          rbegin |-> (IF has_pulse THEN {"pulse"} ELSE {})
                       \cup (IF has_breathing THEN {"breathing"} ELSE {}),
          line |-> IF has_pulse \/ has_breathing
                   THEN << "Vitals", pulse, breathing >>
                   ELSE << >>,
          ret |-> "ok" ]

\* Lines 122-136: the frame of one invocation of the metrics callback: its
\* argument, its locals, the series whose rbegin() it dereferenced, the line it
\* printed (<< >> when it printed none) and the status it returned.
MetricsCallback(metrics) ==
    LET has_pulse == metrics.pulse_rate # << >>
        has_breathing == metrics.breathing_rate # << >>
        pulse == IF has_pulse THEN Last(metrics.pulse_rate) ELSE 0
        breathing == IF has_breathing THEN Last(metrics.breathing_rate) ELSE 0
    IN  [ name |-> "metrics",
          metrics |-> metrics,
          pulse |-> pulse,
          breathing |-> breathing,
          rbegin |-> (IF has_pulse THEN {"pulse"} ELSE {})
                       \cup (IF has_breathing THEN {"breathing"} ELSE {}),
          line |-> IF has_pulse /\ has_breathing
                   THEN << "Vitals", pulse, breathing >>
                   ELSE << >>,
          ret |-> "ok" ]

\* Lines 144-153: the frame of one invocation of the video callback.  Headless, it
\* shows nothing and reads no key; otherwise it shows the frame, reads a key and
\* returns CancelledError for 'q' and escape.
VideoCallback(is_headless, wait_key) ==
    IF is_headless
    THEN [ name |-> "video", imshow |-> FALSE, key |-> 0, ret |-> "ok" ]
    ELSE LET key == LowByteAsChar(wait_key)
         IN  [ name |-> "video", imshow |-> TRUE, key |-> key,
               ret |-> IF key = KeyQ \/ key = KeyEscape THEN "cancelled" ELSE "ok" ]

\* Lines 161-164: the frame of one invocation of the status callback.
StatusCallback(imaging_status) ==
    [ name |-> "status",
      imaging_status |-> imaging_status,
      line |-> << "Imaging/processing status", GetStatusDescription(imaging_status) >>,
      ret |-> "ok" ]

----------------------------------------------------------------------------
(* main(), lines 178-191: Run, and the end of main *)

\* Lines 178-179: the "Ready!" line, then Run is entered.
Run ==
    /\ pc = "run"
    /\ Call("Run", "running")
    /\ out' = out \cup {"ready"}
    /\ pc' = "running"
    /\ UNCHANGED << argv1, env_api_key, api_key, api_key_source, env_dev,
                    device_index, input_video_path, w, capture_width, h,
                    capture_height, headless, settings, container, hud, file_good,
                    cb, callback_status, windows, run_end, e_what, exit_code >>

\* The running container invokes the metrics callback with a snapshot.
OnCoreMetricsOutput ==
    /\ pc = "running"
    /\ cb.name = "none"
    /\ callback_status = "ok"
    /\ \E metrics \in MetricsBuffers : cb' = MetricsCallback(metrics)
    /\ UNCHANGED << pc, argv1, env_api_key, api_key, api_key_source, env_dev,
                    device_index, input_video_path, w, capture_width, h,
                    capture_height, headless, settings, container, hud, file_good,
                    calls, callback_status, windows, run_end, out, e_what,
                    exit_code >>

\* The running container invokes the video callback with a frame; cv::imshow
\* creates the window when it does not exist.
OnVideoOutput ==
    /\ pc = "running"
    /\ cb.name = "none"
    /\ callback_status = "ok"
    /\ \E wait_key \in (IF headless THEN {-1} ELSE WaitKeyResults) :
         cb' = VideoCallback(headless, wait_key)
    /\ windows' = IF cb'.imshow THEN windows \cup {WindowName} ELSE windows
    /\ UNCHANGED << pc, argv1, env_api_key, api_key, api_key_source, env_dev,
                    device_index, input_video_path, w, capture_width, h,
                    capture_height, headless, settings, container, hud, file_good,
                    calls, callback_status, run_end, out, e_what, exit_code >>

\* The running container invokes the status callback with an imaging status.
OnStatusChange ==
    /\ pc = "running"
    /\ cb.name = "none"
    /\ callback_status = "ok"
    /\ \E imaging_status \in StatusValues : cb' = StatusCallback(imaging_status)
    /\ UNCHANGED << pc, argv1, env_api_key, api_key, api_key_source, env_dev,
                    device_index, input_video_path, w, capture_width, h,
                    capture_height, headless, settings, container, hud, file_good,
                    calls, callback_status, windows, run_end, out, e_what,
                    exit_code >>

\* The callback returns its status to the container; its frame is gone.
CallbackReturns ==
    /\ pc = "running"
    /\ cb.name # "none"
    /\ callback_status' = cb.ret
    /\ cb' = NoCallback
    /\ UNCHANGED << pc, argv1, env_api_key, api_key, api_key_source, env_dev,
                    device_index, input_video_path, w, capture_width, h,
                    capture_height, headless, settings, container, hud, file_good,
                    calls, windows, run_end, out, e_what, exit_code >>

\* What Run may give back.  After a callback returned a status that is not OK the
\* container stops its loop, and Run returns either that status or OK; otherwise
\* the stream ends (OK), the pipeline fails (an error status) or throws.
RunOutcomes ==
    IF callback_status # "ok"
    THEN { [result |-> "ok", cause |-> callback_status],
           [result |-> callback_status, cause |-> callback_status] }
    ELSE { [result |-> "ok", cause |-> "complete"],
           [result |-> "error", cause |-> "error"],
           [result |-> "throw", cause |-> "throw"] }

\* Line 179: Run returns (or throws) between two callbacks.
RunReturns ==
    /\ pc = "running"
    /\ cb.name = "none"
    /\ \E o \in RunOutcomes :
         /\ calls' = [calls EXCEPT ![Len(calls)].result = o.result]
         /\ run_end' = o.cause
         /\ IF o.result = "throw"
            THEN /\ e_what' = "container"
                 /\ pc' = "catch"
            ELSE /\ pc' = "run_returned"
                 /\ UNCHANGED e_what
    /\ UNCHANGED << argv1, env_api_key, api_key, api_key_source, env_dev,
                    device_index, input_video_path, w, capture_width, h,
                    capture_height, headless, settings, container, hud, file_good,
                    cb, callback_status, windows, out, exit_code >>

\* Lines 179-186: a status that is not OK is a processing failure and returns 1;
\* on OK the windows are destroyed and main returns 0.
AfterRun ==
    /\ pc = "run_returned"
    /\ IF calls[Len(calls)].result # "ok"
       THEN /\ Return({"processing_failed"}, 1)
            /\ UNCHANGED windows
       ELSE /\ windows' = {}
            /\ Return({"done"}, 0)
    /\ UNCHANGED << argv1, env_api_key, api_key, api_key_source, env_dev,
                    device_index, input_video_path, w, capture_width, h,
                    capture_height, headless, settings, container, hud, file_good,
                    calls, cb, callback_status, run_end, e_what >>

\* Lines 188-191: the handler of the try block prints e.what() and returns 1; the
\* locals of the try block are gone.
CatchException ==
    /\ pc = "catch"
    /\ Return({"error_exception"}, 1)
    /\ env_dev' = Null
    /\ w' = Null
    /\ h' = Null
    /\ UNCHANGED << argv1, env_api_key, api_key, api_key_source, device_index,
                    input_video_path, capture_width, capture_height, headless,
                    settings, container, hud, file_good, calls, cb,
                    callback_status, windows, run_end, e_what >>

----------------------------------------------------------------------------

Next ==
    \/ ResolveKey
    \/ CheckKeyEmpty
    \/ GetenvCameraIndex
    \/ StoiCameraIndex
    \/ GetenvInputVideo
    \/ GetenvWidth
    \/ StoiWidth
    \/ GetenvHeight
    \/ StoiHeight
    \/ BuildSettings
    \/ ConstructContainer
    \/ ConstructHud
    \/ CheckInputFile
    \/ SetOnCoreMetricsOutput
    \/ SetOnVideoOutput
    \/ SetOnStatusChange
    \/ Initialize
    \/ Run
    \/ OnCoreMetricsOutput
    \/ OnVideoOutput
    \/ OnStatusChange
    \/ CallbackReturns
    \/ RunReturns
    \/ AfterRun
    \/ CatchException

Spec == Init /\ [][Next]_vars

----------------------------------------------------------------------------
(* Vocabulary of the properties *)

\* A source of the credential that holds nothing: unset, or the empty string.
AbsentOrEmpty(v) == v = Null \/ v = << >>

\* The credential the two sources give is absent or empty: an argument that is
\* empty, or no argument and an environment variable that is unset or empty.
CredentialMissing ==
    IF argv1 # Null THEN argv1 = << >> ELSE AbsentOrEmpty(env_api_key)

\* s is a decimal integer: optional white space, an optional sign, one digit or
\* more, and nothing after them.
IsInteger(s) ==
    LET p == SkipSpaces(s, 1)
        d == IF p <= Len(s) /\ s[p] \in {"-", "+"} THEN p + 1 ELSE p
    IN  /\ d <= Len(s)
        /\ \A i \in d..Len(s) : IsDigit(s[i])

\* The container calls made so far, by name.
Called == { calls[i].op : i \in 1..Len(calls) }

\* The messages that report a failure.
FailureMessages ==
    { "usage", "api_key_empty", "input_file_not_found", "failed_metrics_callback",
      "failed_video_callback", "failed_status_callback", "failed_initialize",
      "processing_failed", "error_exception" }

\* Every step of the session succeeded.
AllStepsSucceeded ==
    /\ api_key # << >>
    /\ input_video_path # << >> => file_good = "good"
    /\ Len(calls) = Len(Lifecycle)
    /\ \A i \in 1..Len(calls) : calls[i].result = "ok"
    /\ e_what = "none"

----------------------------------------------------------------------------
(* Properties *)

\* C1: when Run ended because the video callback returned a cancellation, main
\* returns 0; when Run ended with a processing error, main returns 1.
C1_CancellationExitsZero ==
    pc = "done" =>
      /\ run_end = "cancelled" => exit_code = 0
      /\ run_end = "error" => exit_code = 1

\* C2: with an absent or empty credential the program ends with 1 after printing
\* guidance, and acquires nothing: no container is constructed, no callback is
\* registered, Initialize and Run are not called.
C2_MissingCredentialAcquiresNothing ==
    CredentialMissing =>
      /\ pc \in {"resolve_key", "check_key", "done"}
      /\ container = NoObject /\ settings = NoObject /\ hud = NoObject
      /\ calls = << >>
      /\ pc = "done" =>
           /\ exit_code = 1
           /\ out \in {{"usage"}, {"api_key_empty"}}

C2_Witness ==
    /\ pc = "done"
    /\ argv1 = << >>
    /\ "api_key_empty" \in out
    /\ exit_code = 1

\* C3: whenever argv[1] or SMARTSPECTRA_API_KEY holds a non-empty string, the
\* program gets past the credential with a non-empty key, and a non-empty
\* argument is the key that is used.
C3_AnyNonEmptySourceProceeds ==
    (~AbsentOrEmpty(argv1) \/ ~AbsentOrEmpty(env_api_key))
      /\ pc \notin {"resolve_key", "check_key"}
    => /\ api_key # << >>
       /\ out \cap {"usage", "api_key_empty"} = {}
       /\ ~AbsentOrEmpty(argv1) => api_key = argv1

\* C4: main returns 0 exactly when every step succeeded and 1 otherwise, a
\* failure is reported, and the container calls made are a prefix of the
\* lifecycle in which only the last one can have failed: nothing is called after
\* a failure, and nothing is called twice.
C4_ExitCodes ==
    /\ exit_code \in {-1, 0, 1}
    /\ pc = "done" <=> exit_code # -1
    /\ pc = "done" =>
         /\ exit_code = 0 <=> AllStepsSucceeded
         /\ exit_code = 1 <=> out \cap FailureMessages # {}
    /\ Len(calls) <= Len(Lifecycle)
    /\ \A i \in 1..Len(calls) :
         /\ calls[i].op = Lifecycle[i]
         /\ i < Len(calls) => calls[i].result = "ok"
    /\ (api_key = << >> /\ pc # "resolve_key") =>
         /\ pc \in {"check_key", "done"}
         /\ calls = << >>
    /\ file_good = "bad" =>
         /\ pc = "done"
         /\ Called = {"ctor"}

C4_Witness ==
    /\ pc = "done"
    /\ exit_code = 0
    /\ Called = { Lifecycle[i] : i \in 1..Len(Lifecycle) }

\* C5: when the configured input file cannot be opened the program reports it
\* and returns 1 without calling Initialize or Run; when it can be opened the
\* early exit is not taken, the callbacks are registered next, and Initialize is
\* called once the three registrations have succeeded.
C5_InputFileCheck ==
    /\ file_good = "bad" =>
         /\ pc = "done" /\ exit_code = 1
         /\ "input_file_not_found" \in out
         /\ Called \cap {"Initialize", "Run"} = {}
    /\ file_good = "good" =>
         /\ "input_file_not_found" \notin out
         /\ pc # "set_metrics" => "SetOnCoreMetricsOutput" \in Called
         /\ (/\ Len(calls) >= 4
             /\ calls[4].result = "ok"
             /\ pc # "initialize") => "Initialize" \in Called
    /\ file_good = "unchecked" =>
         \/ input_video_path = << >>
         \/ Called \subseteq {"ctor"} /\ "input_file_not_found" \notin out

C5_Witness ==
    /\ file_good = "bad"
    /\ input_video_path = << "f" >>
    /\ pc = "done"

\* C6: the metrics callback prints a vitals line exactly when the pulse-rate and
\* the breathing-rate series are both non-empty, dereferences the last element
\* of a series only when that series is non-empty, prints the last element of
\* each series, and returns OK.
C6_MetricsCallback ==
    cb.name = "metrics" =>
      LET m == cb.metrics
      IN  /\ cb.line # << >> <=> (m.pulse_rate # << >> /\ m.breathing_rate # << >>)
          /\ "pulse" \in cb.rbegin => m.pulse_rate # << >>
          /\ "breathing" \in cb.rbegin => m.breathing_rate # << >>
          /\ cb.line # << >> =>
               cb.line = << "Vitals", m.pulse_rate[Len(m.pulse_rate)],
                            m.breathing_rate[Len(m.breathing_rate)] >>
          /\ cb.ret = "ok"

C6_Witness ==
    /\ cb.name = "metrics"
    /\ cb.metrics.pulse_rate = << 60, 72 >>
    /\ cb.metrics.breathing_rate = << 72, 60 >>
    /\ cb.line = << "Vitals", 72, 60 >>

\* C7: once SMARTSPECTRA_CAMERA_INDEX is read, the device index is 0 when the
\* variable is unset, 0 with a warning when its value is not an integer, and the
\* integer it spells otherwise; the program goes on in every case.
C7_InvalidCameraIndexDefaults ==
    pc = "getenv_input" =>
      /\ env_dev = Null => device_index = 0
      /\ (env_dev # Null /\ ~IsInteger(env_dev)) =>
           /\ device_index = 0
           /\ "camera_index_invalid" \in out
      /\ (env_dev # Null /\ IsInteger(env_dev)) =>
           /\ device_index = stoi(env_dev).value
           /\ "camera_index_invalid" \notin out

\* C8: a value of SMARTSPECTRA_WIDTH or SMARTSPECTRA_HEIGHT that is not an
\* integer leaves the default (640, 480) in place and the program goes on to the
\* next configuration step: it does not end the process.
C8_InvalidDimensionRecovered ==
    /\ (w # Null /\ ~IsInteger(w) /\ pc # "stoi_w") =>
         /\ pc = "getenv_h"
         /\ capture_width = DefaultWidth
    /\ (h # Null /\ ~IsInteger(h) /\ pc # "stoi_h") =>
         /\ pc = "settings"
         /\ capture_height = DefaultHeight

\* C9: when Run ended by natural completion or by a cancellation from the video
\* callback, no window is left when main returns.
C9_WindowsDestroyed ==
    (pc = "done" /\ run_end \in {"complete", "cancelled"}) => windows = {}

\* C10: the container is never constructed from settings whose input file
\* cannot be opened: when the file check fails, no container exists.
C10_NoContainerForUnreadableFile ==
    file_good = "bad" => (container = NoObject /\ "ctor" \notin Called)

====
